---- MODULE Spec2Model ----
(***************************************************************************)
(* Progress-statistics engine of the goal tracker                          *)
(* (src/app/services/__init__.py): active_window, sum_in_window,           *)
(* progress_pct, required_pace, actual_pace, compute_streak and            *)
(* calculate_progress_stats, milestones_reached; the heatmap query of the  *)
(* log repository; and the endpoints of src/app/api/v1/endpoints over the  *)
(* tables users, goals and logs: register, refresh_token and /auth/me,     *)
(* create_goal, update_goal, delete_goal, generate_share_token,            *)
(* create_log, delete_log, and the endpoints that read goals and logs.     *)
(*                                                                         *)
(* Representation.                                                         *)
(*  - A datetime is [t, aware]: t is its wall-clock reading in ticks       *)
(*    (TicksPerDay ticks per day), aware is tzinfo is not None.  Aware     *)
(*    values carry tzinfo UTC (the only zone the code ever attaches), so   *)
(*    replace(tzinfo=...) changes aware and keeps t.                       *)
(*  - Subtracting or ordering an aware and a naive datetime raises         *)
(*    TypeError in Python; operators that do so report raised = TRUE.      *)
(*  - An Optional value is a sequence: <<>> is None, <<v>> is v.           *)
(*  - Decimal amounts (Numeric(12,2)) are integers of the smallest unit;   *)
(*    a float result is the exact fraction [num, den] in lowest terms,     *)
(*    den > 0 (rounding of Decimal division and of float() is not          *)
(*    modelled).                                                           *)
(***************************************************************************)
EXTENDS Integers, Sequences, FiniteSets, TLC

VARIABLES goal, logs, now, pc, window, stats, prev, ms, db, inflight, last

vars == <<goal, logs, now, pc, window, stats, prev, ms, db, inflight, last>>

-----------------------------------------------------------------------------
(* Bounds of the checked input space *)

TicksPerDay == 2
MaxTime == 4
MaxLogs == 2
MaxAmount == 2
MaxRollingDays == 2
MaxStreakDays == 5
MaxMilestones == 2
MaxUsers == 3
MaxGoals == 2
MaxLogRows == 1
MaxInflight == 3

(* Program constants *)

DefaultRollingDays == 30
DefaultCycleDays == 7

-----------------------------------------------------------------------------
(* Values *)

None == <<>>
Some(v) == <<v>>
IsNone(o) == o = <<>>
Val(o) == o[1]
Opt(S) == {None} \cup {Some(v) : v \in S}

GoalType == {"count", "sum", "streak", "milestone", "open"}
TimeframeType == {"fixed", "rolling", "recurring"}

Max(a, b) == IF a >= b THEN a ELSE b
Abs(a) == IF a >= 0 THEN a ELSE -a

RECURSIVE GCD(_, _)
GCD(a, b) == IF b = 0 THEN a ELSE GCD(b, a % b)

(* float(n / d) for d > 0, as an exact fraction in lowest terms *)
Float(n, d) ==
    LET g == GCD(Abs(n), d)
    IN  [num |-> n \div g, den |-> d \div g]

FloatLeq(a, b) == a.num * b.den <= b.num * a.den
FloatMin(a, b) == IF FloatLeq(a, b) THEN a ELSE b

(* datetime helpers *)
DateTime(tick, aw) == [t |-> tick, aware |-> aw]
Replace(d, aw) == [d EXCEPT !.aware = aw]
Comparable(a, b) == a.aware = b.aware
PlusDays(d, n) == [d EXCEPT !.t = d.t + n * TicksPerDay]
(* (a - b).days : timedelta normalises to floor(delta / 1 day) *)
Days(a, b) == (a.t - b.t) \div TicksPerDay
(* d.date() as a day number *)
DateOf(d) == d.t \div TicksPerDay

(* mutant: the upper comparison made strict *)
DtLt(a, b) == a.t < b.t

(* a <= b on datetimes of one awareness mode *)
DtLeq(a, b) == a.t <= b.t

(* mutant: no reconciliation of awareness *)
coerce_nothing(d, ref) == d

(* The if/elif pair of lines 28-32, 37-41: bring d to the awareness of ref *)
CoerceTo(d, ref) ==
    IF ref.aware /\ ~d.aware THEN Replace(d, TRUE)
    ELSE IF ~ref.aware /\ d.aware THEN Replace(d, FALSE)
    ELSE d

-----------------------------------------------------------------------------
(* active_window, lines 13-67.  nw is a datetime (the default is taken by  *)
(* the caller's step).  Result: [start, end, raised].                      *)

Window(s, e) == [start |-> s, end |-> e, raised |-> FALSE]
WindowRaised == [raised |-> TRUE]

(* line 35: end = goal.end_at if goal.end_at is not None else now *)
fixed_end(g, now1) == IF ~IsNone(g.end_at) THEN Val(g.end_at) ELSE now1

(* line 45: days = goal.rolling_days or 30 *)
rolling_window_days(g) ==
    IF ~IsNone(g.rolling_days) /\ Val(g.rolling_days) # 0
    THEN Val(g.rolling_days) ELSE DefaultRollingDays

(* mutant: the rolling window anchored on the goal instead of on now *)
rolling_end_anchored(g, now1) == PlusDays(g.start_at, rolling_window_days(g))

(* line 46: end = now *)
rolling_end(g, now1) == now1

(* mutant: the window start not moved back from its end *)
rolling_start_at_now(end0, days) == end0

(* line 47: start = end - timedelta(days=days) *)
rolling_start(end0, days) == PlusDays(end0, -days)

(* line 61: cycle_days = goal.rolling_days or 7 *)
cycle_days_of(g) ==
    IF ~IsNone(g.rolling_days) /\ Val(g.rolling_days) # 0
    THEN Val(g.rolling_days) ELSE DefaultCycleDays

(* mutant: division truncating toward zero instead of flooring *)
cycles_passed_truncating(g, now1) ==
    LET d == Days(now1, g.start_at)
    IN  IF d >= 0 THEN d \div cycle_days_of(g) ELSE -((-d) \div cycle_days_of(g))

(* line 62: cycles_passed = (now - goal.start_at).days // cycle_days *)
cycles_passed_of(g, now1) == Days(now1, g.start_at) \div cycle_days_of(g)

(* mutant: an unrecognized timeframe type rejected *)
fallback_rejected(g, now1) == WindowRaised

(* line 67: return goal.start_at, now *)
fallback_window(g, now1) == Window(g.start_at, now1)

active_window(g, nw) ==
    LET now1 == CoerceTo(nw, g.start_at)
    IN  IF g.timeframe_type = "fixed" THEN
            LET end0 == fixed_end(g, now1)
            IN  Window(g.start_at, CoerceTo(end0, g.start_at))
        ELSE IF g.timeframe_type = "rolling" THEN
            LET days == rolling_window_days(g)
                end0 == rolling_end(g, now1)
                start0 == rolling_start(end0, days)
            IN  IF g.start_at.aware /\ ~start0.aware
                THEN Window(Replace(start0, TRUE), Replace(end0, TRUE))
                ELSE IF ~g.start_at.aware /\ start0.aware
                THEN Window(Replace(start0, FALSE), Replace(end0, FALSE))
                ELSE Window(start0, end0)
        ELSE IF g.timeframe_type = "recurring" THEN
            LET cycle_days == cycle_days_of(g)
            IN  IF ~Comparable(now1, g.start_at) THEN WindowRaised
                ELSE LET cycles_passed == cycles_passed_of(g, now1)
                         cycle_start == PlusDays(g.start_at, cycles_passed * cycle_days)
                         cycle_end == PlusDays(cycle_start, cycle_days)
                     IN  Window(cycle_start, cycle_end)
        ELSE fallback_window(g, now1)

-----------------------------------------------------------------------------
(* sum_in_window, lines 70-89: the for loop from index i with running      *)
(* total.  Result: [raised, total].                                        *)

RECURSIVE SumLoop(_, _, _, _, _)
SumLoop(ls, i, total, ws, we) ==
    IF i > Len(ls) THEN [raised |-> FALSE, total |-> total]
    ELSE LET d == ls[i].date
         IN  IF ~Comparable(ws, d) THEN [raised |-> TRUE, total |-> total]
             ELSE IF ~DtLeq(ws, d) THEN SumLoop(ls, i + 1, total, ws, we)
             ELSE IF ~Comparable(d, we) THEN [raised |-> TRUE, total |-> total]
             ELSE IF DtLeq(d, we) THEN SumLoop(ls, i + 1, total + ls[i].value, ws, we)
             ELSE SumLoop(ls, i + 1, total, ws, we)

sum_in_window(g, ls, ws, we) == SumLoop(ls, 1, 0, ws, we)

(* bool(goal.target): None and Decimal 0 are falsy *)
Truthy(target) == ~IsNone(target) /\ Val(target) # 0

(* mutant: the open goal type not tested *)
NoTarget_ignores_open(g) == ~Truthy(g.target)

(* lines 105, 130: goal.goal_type == "open" or not goal.target *)
NoTarget(g) == g.goal_type = "open" \/ ~Truthy(g.target)

(* mutant: calendar dates subtracted instead of instants *)
total_days_by_date(ws, we) == DateOf(we) - DateOf(ws)

(* lines 133, 156: total_days = (window_end - window_start).days *)
total_days_of(ws, we) == Days(we, ws)

(* mutant: operands of the subtraction swapped *)
remaining_days_swapped(we, nw) == Max(1, Days(nw, we))

(* line 138: remaining_days = max(1, (window_end - now).days) *)
remaining_days_of(we, nw) == Max(1, Days(we, nw))

FloatZero == Float(0, 1)
FloatHundred == Float(100, 1)

(* mutant: no clamp *)
clamp_progress_missing(progress) == progress

(* line 114: min(progress, 100.0) *)
clamp_progress(progress) == FloatMin(progress, FloatHundred)

(* progress_pct, lines 92-114.  Result: [raised, value]. *)

progress_pct(g, ls, ws, we) ==
    IF NoTarget(g)
    THEN [raised |-> FALSE, value |-> FloatZero]
    ELSE LET achieved == sum_in_window(g, ls, ws, we)
         IN  IF achieved.raised THEN [raised |-> TRUE, value |-> FloatZero]
             ELSE IF Val(g.target) = 0
             THEN [raised |-> FALSE,
                   value |-> IF achieved.total > 0 THEN FloatHundred ELSE FloatZero]
             ELSE [raised |-> FALSE,
                   value |-> clamp_progress(Float(achieved.total * 100,
                                                  Val(g.target)))]

(* required_pace, lines 117-140.  Result: [raised, value]. *)
required_pace(g, nw, ws, we) ==
    IF NoTarget(g)
    THEN [raised |-> FALSE, value |-> FloatZero]
    ELSE IF ~Comparable(we, ws) THEN [raised |-> TRUE, value |-> FloatZero]
    ELSE LET total_days == total_days_of(ws, we)
         IN  IF total_days <= 0 THEN [raised |-> FALSE, value |-> FloatZero]
             ELSE IF ~Comparable(we, nw) THEN [raised |-> TRUE, value |-> FloatZero]
             ELSE LET remaining_value == Val(g.target)
                      remaining_days == remaining_days_of(we, nw)
                  IN  [raised |-> FALSE,
                       value |-> Float(remaining_value, remaining_days)]

(* actual_pace, lines 143-161.  Result: [raised, value]. *)
actual_pace(g, ls, ws, we) ==
    IF ~Comparable(we, ws) THEN [raised |-> TRUE, value |-> FloatZero]
    ELSE LET total_days == total_days_of(ws, we)
         IN  IF total_days <= 0 THEN [raised |-> FALSE, value |-> FloatZero]
             ELSE LET achieved == sum_in_window(g, ls, ws, we)
                  IN  IF achieved.raised THEN [raised |-> TRUE, value |-> FloatZero]
                      ELSE [raised |-> FALSE,
                            value |-> Float(achieved.total, total_days)]

-----------------------------------------------------------------------------
(* compute_streak, lines 164-219.  Result: [raised, current, best]. *)

(* lines 187-193: logs_by_date[d], as the indices of the logs dated d *)
logs_by_date(ls, d) == {i \in 1..Len(ls) : DateOf(ls[i].date) = d}

(* mutant: any log makes the date active, whatever its value *)
has_activity_any_log(ls, d) == TRUE

(* line 202: any(log.value > 0 for log in logs_by_date[current_date]) *)
has_activity(ls, d) == \E i \in logs_by_date(ls, d) : ls[i].value > 0

(* the while loop of lines 199-211 from current_date d to end_date *)
(* mutant: the best streak reported as the current one *)
current_streak_is_best(temp_streak, best_streak) == best_streak

(* line 214: current_streak = temp_streak *)
current_streak_of(temp_streak, best_streak) == temp_streak

(* mutant: the first date lying wholly inside the window *)
first_date_inside(ws) == (ws.t + TicksPerDay - 1) \div TicksPerDay

(* line 196: current_date = window_start.date() *)
first_date(ws) == DateOf(ws)

RECURSIVE StreakLoop(_, _, _, _, _)
StreakLoop(ls, d, end_date, temp_streak, best_streak) ==
    IF ~(d <= end_date)
    THEN [current |-> current_streak_of(temp_streak, best_streak),
          best |-> best_streak]
    ELSE IF logs_by_date(ls, d) # {} /\ has_activity(ls, d)
         THEN StreakLoop(ls, d + 1, end_date, temp_streak + 1,
                         Max(best_streak, temp_streak + 1))
         ELSE StreakLoop(ls, d + 1, end_date, 0, best_streak)

(* mutant: the streak computed for every goal type *)
streak_applies_always(g) == TRUE

(* line 177: the negation of goal.goal_type != "streak" *)
streak_applies(g) == g.goal_type = "streak"

compute_streak(g, ls, ws, we) ==
    IF ~streak_applies(g) THEN [raised |-> FALSE, current |-> 0, best |-> 0]
    \* sorted(logs, key=date) orders the dates: a list mixing aware and naive raises
    ELSE IF \E i, j \in 1..Len(ls) : ~Comparable(ls[i].date, ls[j].date)
    THEN [raised |-> TRUE, current |-> 0, best |-> 0]
    ELSE LET r == StreakLoop(ls, first_date(ws), DateOf(we), 0, 0)
         IN  [raised |-> FALSE, current |-> r.current, best |-> r.best]

-----------------------------------------------------------------------------
(* milestones_reached, lines 222-244.  settings_json is None or a dict     *)
(* [other, milestones]: other tells whether it has keys besides            *)
(* "milestones", milestones is None when that key is absent.  A milestone  *)
(* is a dict [threshold, label], either key possibly absent.               *)

(* bool(goal.settings_json): None and the empty dict are falsy *)
TruthyDict(sj) == ~IsNone(sj) /\ (Val(sj).other \/ ~IsNone(Val(sj).milestones))

(* line 240: milestone.get("threshold", 0) *)
threshold_of(milestone) ==
    IF IsNone(milestone.threshold) THEN 0 ELSE Val(milestone.threshold)

(* line 242: milestone.get("label", "") *)
label_of(milestone) == IF IsNone(milestone.label) THEN "" ELSE Val(milestone.label)

(* mutant: the threshold itself not reached *)
threshold_exceeded(pct, threshold) == ~FloatLeq(pct, Float(threshold, 1))

(* line 241: progress_pct >= threshold *)
threshold_reached(pct, threshold) == FloatLeq(Float(threshold, 1), pct)

(* the for loop of lines 239-242 from index i *)
RECURSIVE ReachedLoop(_, _, _, _)
ReachedLoop(milestones, i, pct, reached) ==
    IF i > Len(milestones) THEN reached
    ELSE IF threshold_reached(pct, threshold_of(milestones[i]))
         THEN ReachedLoop(milestones, i + 1, pct,
                          Append(reached, label_of(milestones[i])))
         ELSE ReachedLoop(milestones, i + 1, pct, reached)

milestones_reached(sj, pct) ==
    IF ~TruthyDict(sj) \/ IsNone(Val(sj).milestones) THEN <<>>
    ELSE ReachedLoop(Val(Val(sj).milestones), 1, pct, <<>>)

-----------------------------------------------------------------------------
(* calculate_progress_stats, lines 247-283, in two steps: the window is    *)
(* resolved (263-266), then every statistic is computed against it and the *)
(* ProgressStats record is built (268-283).  A TypeError, or the           *)
(* ValidationError of ProgressStats.progress_pct (ge=0, le=100), ends the  *)
(* call in pc = "raised" with stats.raised naming the callee at fault.     *)

NoWindow == [raised |-> FALSE]
NoStats == [raised |-> "pending"]
NoPrev == [raised |-> "none"]
Raised(callee) == [raised |-> callee]

(* mutant: the threshold itself not counted as achieved *)
is_achieved_above(pct) == ~FloatLeq(pct, FloatHundred)

(* line 276: achieved=progress_pct_val >= 100.0 *)
is_achieved(pct) == FloatLeq(FloatHundred, pct)

ProgressStats(g, a, p, r, ap, s) ==
    IF ~(FloatLeq(FloatZero, p.value) /\ FloatLeq(p.value, FloatHundred))
    THEN Raised("ProgressStats")
    ELSE [raised |-> "",
          progress_pct |-> p.value,
          achieved |-> is_achieved(p.value),
          achieved_value |-> a.total,
          target |-> IF Truthy(g.target) THEN Val(g.target) ELSE 0,
          required_pace |-> r.value,
          actual_pace |-> ap.value,
          streak |-> [current |-> s.current, best |-> s.best]]

(* mutant: the window resolved again, a day later, for the actual pace *)
calculate_progress_stats_rewindowed(g, ls, nw, ws, we) ==
    LET later == active_window(g, PlusDays(nw, 1))
        achieved_value == sum_in_window(g, ls, ws, we)
        progress_pct_val == progress_pct(g, ls, ws, we)
        required_pace_val == required_pace(g, nw, ws, we)
        actual_pace_val == actual_pace(g, ls, later.start, later.end)
        streak_data == compute_streak(g, ls, ws, we)
    IN  IF achieved_value.raised THEN Raised("sum_in_window")
        ELSE IF progress_pct_val.raised THEN Raised("progress_pct")
        ELSE IF required_pace_val.raised THEN Raised("required_pace")
        ELSE IF actual_pace_val.raised THEN Raised("actual_pace")
        ELSE IF streak_data.raised THEN Raised("compute_streak")
        ELSE ProgressStats(g, achieved_value, progress_pct_val, required_pace_val,
                           actual_pace_val, streak_data)

calculate_progress_stats(g, ls, nw, ws, we) ==
    LET achieved_value == sum_in_window(g, ls, ws, we)
        progress_pct_val == progress_pct(g, ls, ws, we)
        required_pace_val == required_pace(g, nw, ws, we)
        actual_pace_val == actual_pace(g, ls, ws, we)
        streak_data == compute_streak(g, ls, ws, we)
    IN  IF achieved_value.raised THEN Raised("sum_in_window")
        ELSE IF progress_pct_val.raised THEN Raised("progress_pct")
        ELSE IF required_pace_val.raised THEN Raised("required_pace")
        ELSE IF actual_pace_val.raised THEN Raised("actual_pace")
        ELSE IF streak_data.raised THEN Raised("compute_streak")
        ELSE ProgressStats(g, achieved_value, progress_pct_val, required_pace_val,
                           actual_pace_val, streak_data)

-----------------------------------------------------------------------------
(* The database and the endpoints.  db holds the rows of the tables users, *)
(* goals and logs (the columns the endpoints below read or write) and the  *)
(* autoincrement counters of goals and logs; goal_members and              *)
(* cycle_summaries have no writer in the application and stay empty.       *)
(* inflight counts, per email, the register requests that have passed the  *)
(* duplicate check and not yet inserted; last is the latest HTTP exchange. *)

UserIds == 1..MaxUsers
GoalIds == 1..MaxGoals
LogIds == 1..MaxLogRows
Emails == {"ann@example.com", "bob@example.com"}

(* a bearer token: valid = signed with JWT_SECRET and not expired.  The     *)
(* tokens presented: an access token for each user id (user MaxUsers is    *)
(* never registered), and for user 1 a refresh token, a token with a bad   *)
(* signature and an access token without user_id                           *)
Token(valid, type, user_id) == [valid |-> valid, type |-> type, user_id |-> user_id]
Tokens ==
    {Token(TRUE, "access", Some(u)) : u \in UserIds}
        \cup {Token(TRUE, "refresh", Some(1)), Token(FALSE, "access", Some(1)),
              Token(TRUE, "access", None)}

(* the tokens a client may present to the auth endpoints: signed with the   *)
(* secret and unexpired or not, of either type, naming a user id or none   *)
AuthTokens ==
    {Token(v, ty, u) : v \in BOOLEAN, ty \in {"access", "refresh"},
                       u \in Opt(UserIds)}

(* security.py create_access_token, create_refresh_token *)
create_access_token(data) == Token(TRUE, "access", Some(data.user_id))
create_refresh_token(data) == Token(TRUE, "refresh", Some(data.user_id))

(* a create-goal body: the GoalCreate field privacy, and the keys owner_id *)
(* and status a client may add (naming user 1 as owner of an ended goal)   *)
Bodies ==
    {[privacy |-> p, owner_id |-> f, status |-> IF f = None THEN None ELSE Some("ended")] :
        p \in {"public", "private"}, f \in Opt({1})}

(* the users table after both emails have registered *)
RegisteredUsers ==
    {[id |-> 1, email |-> "ann@example.com"], [id |-> 2, email |-> "bob@example.com"]}

(* the bearer tokens of the requests on goals and logs: an access token of  *)
(* each registered user, and one that fails verification                   *)
SessionTokens ==
    {Token(TRUE, "access", Some(u.id)) : u \in RegisteredUsers}
        \cup {Token(FALSE, "access", Some(1))}

(* create-goal bodies with the schema's fields only *)
PlainBodies == {body \in Bodies : IsNone(body.owner_id)}

EmptyDb == [users |-> {}, goals |-> {}, logs |-> {}, goal_seq |-> 0, log_seq |-> 0]
NoResponse == [op |-> "none"]

ApiIdle ==
    /\ db = EmptyDb
    /\ inflight = [e \in Emails |-> 0]
    /\ last = NoResponse

(* security.py lines 41-51: the payload, or None *)
(* mutant: the payload's type is not compared *)
verify_token_any_type(token, token_type) ==
    IF ~token.valid THEN None
    ELSE Some([user_id |-> token.user_id])

verify_token(token, token_type) ==
    IF ~token.valid THEN None
    ELSE IF token.type # token_type THEN None
    ELSE Some([user_id |-> token.user_id])

(* UserRepository.get_by_id, get_by_email: scalar_one_or_none *)
user_get_by_id(d, user_id) ==
    IF \E u \in d.users : u.id = user_id
    THEN Some(CHOOSE u \in d.users : u.id = user_id) ELSE None

(* mutant: the duplicate check finds nothing *)
user_get_by_email_blind(d, email) == None

user_get_by_email(d, email) ==
    IF \E u \in d.users : u.email = email
    THEN Some(CHOOSE u \in d.users : u.email = email) ELSE None

(* GoalRepository.get_by_id *)
goal_get_by_id(d, goal_id) ==
    IF \E g \in d.goals : g.id = goal_id
    THEN Some(CHOOSE g \in d.goals : g.id = goal_id) ELSE None

(* auth.py lines 27-51: the user, or None for the 401 credentials_exception *)
get_current_user(d, token) ==
    LET payload == verify_token(token, "access")
    IN  IF IsNone(payload) THEN None
        ELSE IF IsNone(Val(payload).user_id) THEN None
        ELSE user_get_by_id(d, Val(Val(payload).user_id))

(* mutant: owner and status taken from the body when it names them *)
create_goal_dict_from_body(body, current_user) ==
    [privacy |-> body.privacy,
     owner_id |-> IF IsNone(body.owner_id) THEN current_user.id ELSE Val(body.owner_id),
     status |-> IF IsNone(body.status) THEN "active" ELSE Val(body.status)]

(* goals.py lines 60-62: goal_data.dict() keeps the schema's fields only,  *)
(* then owner_id and status are assigned                                   *)
create_goal_dict(body, current_user) ==
    [privacy |-> body.privacy, owner_id |-> current_user.id, status |-> "active"]

(* GoalRepository.create, LogRepository.create: the inserted row *)
GoalRow(id, goal_dict) ==
    [id |-> id, owner_id |-> goal_dict.owner_id, status |-> goal_dict.status,
     privacy |-> goal_dict.privacy, share_token |-> None]
LogRow(id, goal_id, user_id) == [id |-> id, goal_id |-> goal_id, user_id |-> user_id]

(* LogRepository.get_by_id *)
log_get_by_id(d, log_id) ==
    IF \E l \in d.logs : l.id = log_id
    THEN Some(CHOOSE l \in d.logs : l.id = log_id) ELSE None

(* LogRepository.delete *)
log_delete(d, l) == [d EXCEPT !.logs = @ \ {l}]

(* mutant: only the goal's row is deleted *)
goal_delete_goal_only(d, g) ==
    [d EXCEPT !.goals = {x \in d.goals : x.id # g.id}]

(* GoalRepository.update: setattr for every key of update_data; of the     *)
(* GoalUpdate fields the rows of the model hold privacy                    *)
goal_update(d, g, update_data) ==
    IF IsNone(update_data.privacy) THEN d
    ELSE [d EXCEPT !.goals = (@ \ {g}) \cup
                      {[g EXCEPT !.privacy = Val(update_data.privacy)]}]

(* GoalRepository.get_public_goals *)
goal_get_public_goals(d) == {g \in d.goals : g.privacy = "public"}

(* LogRepository.get_by_goal, get_by_user_and_goal; get_chart_data and     *)
(* get_heatmap_data return logs of get_by_goal, those in the date range    *)
log_get_by_goal(d, goal_id) == {l \in d.logs : l.goal_id = goal_id}
log_get_by_user_and_goal(d, user_id, goal_id) ==
    {l \in d.logs : l.user_id = user_id /\ l.goal_id = goal_id}

(* Share tokens.  The endpoints call GoalRepository.get_by_share_token and *)
(* GoalRepository.generate_share_token, which the repository module does   *)
(* not define; they are taken to do what their names and the column        *)
(* Goal.share_token (unique, nullable) say: look the goal up by its        *)
(* token, and store a new token, different from every stored one, on the   *)
(* goal.  A token is a number; there is always one more than goals.        *)
ShareTokens == 1..(MaxGoals + 1)

goal_get_by_share_token(d, share_token) ==
    IF \E g \in d.goals : g.share_token = Some(share_token)
    THEN Some(CHOOSE g \in d.goals : g.share_token = Some(share_token)) ELSE None

FreshShareTokens(d) ==
    {t \in ShareTokens : \A g \in d.goals : g.share_token # Some(t)}

goal_generate_share_token(d, g, share_token) ==
    [d EXCEPT !.goals = (@ \ {g}) \cup {[g EXCEPT !.share_token = Some(share_token)]}]

(* mutant: every caller passes the ownership check *)
not_owner_never(g, current_user) == FALSE

(* goals.py lines 384, 413: goal.owner_id != current_user.id *)
not_owner(g, current_user) == g.owner_id # current_user.id

(* mutant: every caller passes the privacy check *)
access_denied_never(g, current_user) == FALSE

(* goals.py line 259 and its repetitions: a private goal is for its owner *)
access_denied(g, current_user) ==
    g.privacy = "private" /\ g.owner_id # current_user.id

(* goals.py lines 284, 312, 352 *)
share_denied(g) == g.privacy = "private"

(* GoalRepository.delete, lines 123-149, when no statement fails *)
goal_delete(d, g) ==
    [d EXCEPT !.logs = {l \in d.logs : l.goal_id # g.id},
              !.goals = {x \in d.goals : x.id # g.id}]

-----------------------------------------------------------------------------
(* Input space *)

Times == 0..MaxTime
DateTimes == {DateTime(t, a) : t \in Times, a \in BOOLEAN}
Amounts == 0..MaxAmount
LogAmounts == {0, 1, MaxAmount}
Timeframes == TimeframeType \cup {"custom"}
LogEntry(d, v) == [date |-> d, value |-> v]

Goal(gt, tf, tg, s, e, rd) ==
    [goal_type |-> gt, timeframe_type |-> tf, target |-> tg,
     start_at |-> s, end_at |-> e, rolling_days |-> rd]

(* log lists as the repository returns them: ordered by date, one column,  *)
(* hence one awareness mode                                                *)
LogLists(aw) ==
    LET entries == {LogEntry(DateTime(t, aw), v) : t \in Times, v \in LogAmounts}
        lists == UNION {[1..n -> entries] : n \in 0..MaxLogs}
    IN  {l \in lists : \A i \in 1..(Len(l) - 1) : l[i].date.t <= l[i + 1].date.t}

(* every timeframe configuration and reference time, without logs *)
InitWindows ==
    /\ logs = <<>>
    /\ now \in Opt(DateTimes)
    /\ \E tf \in Timeframes, s \in DateTimes, e \in Opt(DateTimes),
          rd \in Opt(1..MaxRollingDays),
          gt \in {"count", "open"}, tg \in {None, Some(0), Some(MaxAmount)} :
          /\ gt = "open" => tg = Some(MaxAmount)
          /\ goal = Goal(gt, tf, tg, s, e, rd)

(* every log list against a few windows *)
InitLogs ==
    \E aw \in BOOLEAN, law \in BOOLEAN :
        /\ logs \in LogLists(law)
        /\ (aw \/ law) => Len(logs) <= 1
        /\ now = Some(DateTime(MaxTime, aw))
        /\ \E gt \in {"count", "streak", "open"}, tg \in Opt(Amounts),
              tf \in Timeframes, st \in {0, 1}, e \in Opt({0, 2, 3, MaxTime}) :
              /\ gt # "count" => tg = Some(MaxAmount)
              /\ tf # "fixed" => (e = None /\ st = 1)
              /\ goal = Goal(gt, tf, tg, DateTime(st, aw),
                             IF e = None THEN None ELSE Some(DateTime(Val(e), aw)),
                             Some(1))

(* streak inputs: a fixed window over the days 0..MaxStreakDays-1, and on   *)
(* each day no log, a zero log, a positive log, or a zero and a positive   *)
(* log; the window bounds and the logs sit at the first or last tick of    *)
(* their day                                                               *)
MsIdle == [pc |-> "idle"]

StreakDays == 0..(MaxStreakDays - 1)
DayOffsets == {0, TicksPerDay - 1}

LogsOfDay(kind, d, lo) ==
    LET dt == DateTime(d * TicksPerDay + lo, FALSE)
    IN  CASE kind = 0 -> <<>>
          [] kind = 1 -> <<LogEntry(dt, 0)>>
          [] kind = 2 -> <<LogEntry(dt, 1)>>
          [] OTHER -> <<LogEntry(dt, 0), LogEntry(dt, MaxAmount)>>

RECURSIVE DayLogs(_, _, _)
DayLogs(f, d, lo) ==
    IF d \notin StreakDays THEN <<>>
    ELSE LogsOfDay(f[d], d, lo) \o DayLogs(f, d + 1, lo)

InitStreak ==
    /\ pc = "call"
    /\ window = NoWindow
    /\ stats = NoStats
    /\ prev = NoPrev
    /\ ms = MsIdle
    /\ ApiIdle
    /\ now = Some(DateTime(0, FALSE))
    /\ \E f \in [StreakDays -> 0..3], lo \in DayOffsets, gt \in GoalType,
          s \in {0, 1}, e \in StreakDays, so \in DayOffsets :
          /\ gt # "streak" => (s = 0 /\ e = MaxStreakDays - 1 /\ so = 0 /\ lo = 0)
          /\ logs = DayLogs(f, 0, lo)
          /\ goal = Goal(gt, "fixed", Some(MaxAmount),
                         DateTime(s * TicksPerDay + so, FALSE),
                         Some(DateTime(e * TicksPerDay + (TicksPerDay - 1 - so), FALSE)),
                         None)

Init ==
    /\ pc = "call"
    /\ window = NoWindow
    /\ stats = NoStats
    /\ prev = NoPrev
    /\ ms = MsIdle
    /\ ApiIdle
    /\ (InitWindows \/ InitLogs)

(* lines 263-266: default now, then active_window *)
ResolveWindow ==
    /\ pc = "call"
    /\ \E clock \in Times :
          /\ ~IsNone(now) => clock = 0
          /\ now' = IF IsNone(now) THEN Some(DateTime(clock, FALSE)) ELSE now
    /\ window' = active_window(goal, Val(now'))
    /\ pc' = IF window'.raised THEN "raised" ELSE "window"
    /\ stats' = IF window'.raised THEN Raised("active_window") ELSE stats
    /\ UNCHANGED <<goal, logs, prev, ms, db, inflight, last>>

(* lines 268-283 *)
AssembleStats ==
    /\ pc = "window"
    /\ stats' = calculate_progress_stats(goal, logs, Val(now), window.start, window.end)
    /\ pc' = IF stats'.raised = "" THEN "done" ELSE "raised"
    /\ UNCHANGED <<goal, logs, now, window, prev, ms, db, inflight, last>>

Next == ResolveWindow \/ AssembleStats

Spec == Init /\ [][Next]_vars

SpecStreak == InitStreak /\ [][Next]_vars

-----------------------------------------------------------------------------
(* A recurring goal whose statistics are asked for twice: prev keeps the   *)
(* now, the window and the record of the first call, then the clock moves  *)
(* on and calculate_progress_stats is called again on the same goal and    *)
(* logs.                                                                   *)

CycleLogLists ==
    {l \in LogLists(FALSE) : \A i \in 1..Len(l) : l[i].value = 1}

InitCycles ==
    /\ pc = "call"
    /\ window = NoWindow
    /\ stats = NoStats
    /\ prev = NoPrev
    /\ ms = MsIdle
    /\ ApiIdle
    /\ logs \in CycleLogLists
    /\ now \in {Some(DateTime(t, FALSE)) : t \in Times}
    /\ \E s \in {0, 1}, rd \in 1..MaxRollingDays :
          goal = Goal("count", "recurring", Some(MaxAmount), DateTime(s, FALSE),
                      None, Some(rd))

CallAgain ==
    /\ pc = "done"
    /\ prev = NoPrev
    /\ prev' = [raised |-> "", now |-> now, window |-> window, stats |-> stats]
    /\ \E t \in Times :
          /\ t >= Val(now).t
          /\ now' = Some(DateTime(t, FALSE))
    /\ pc' = "call"
    /\ window' = NoWindow
    /\ stats' = NoStats
    /\ UNCHANGED <<goal, logs, ms, db, inflight, last>>

NextCycles == ResolveWindow \/ AssembleStats \/ CallAgain

SpecCycles == InitCycles /\ [][NextCycles]_vars

-----------------------------------------------------------------------------
(* milestones_reached as a call of its own: no endpoint and no statistic   *)
(* calls it, so its arguments are any settings_json and any percentage     *)

Thresholds == {0, 50, 100}
Labels == {"half", "done"}
Percentages == {Float(-1, 1), FloatZero, Float(50, 1), Float(199, 2), FloatHundred}
Milestones == [threshold : Opt(Thresholds), label : Opt(Labels)]
MilestoneLists == UNION {[1..n -> Milestones] : n \in 0..MaxMilestones}
SettingsJson == Opt([other : BOOLEAN, milestones : Opt(MilestoneLists)])

EngineIdle ==
    /\ pc = "idle"
    /\ goal = Goal("count", "fixed", None, DateTime(0, FALSE), None, None)
    /\ logs = <<>>
    /\ now = None
    /\ window = NoWindow
    /\ stats = NoStats
    /\ prev = NoPrev

InitMilestones ==
    /\ EngineIdle
    /\ ApiIdle
    /\ \E sj \in SettingsJson, pct \in Percentages :
          ms = [pc |-> "call", settings_json |-> sj, progress_pct |-> pct]

MilestonesReached ==
    /\ ms.pc = "call"
    /\ ms' = [pc |-> "done", settings_json |-> ms.settings_json,
              progress_pct |-> ms.progress_pct,
              reached |-> milestones_reached(ms.settings_json, ms.progress_pct)]
    /\ UNCHANGED <<goal, logs, now, pc, window, stats, prev, db, inflight, last>>

NextMilestones == MilestonesReached

SpecMilestones == InitMilestones /\ [][NextMilestones]_vars

-----------------------------------------------------------------------------
(* The endpoints as steps.  Each handler is one step, except register,     *)
(* whose duplicate check and insert are separate awaits between which      *)
(* another request can run.                                                *)

Unauthorized(op) ==
    [op |-> op, status |-> 401, detail |-> "Could not validate credentials"]

(* the id of the authenticated user of an exchange, or None *)
CallerId(current_user) ==
    IF IsNone(current_user) THEN None ELSE Some(Val(current_user).id)

(* auth.py lines 61-68 *)
RegisterCheck(email) ==
    /\ inflight[email] < MaxInflight
    /\ IF ~IsNone(user_get_by_email(db, email))
       THEN /\ last' = [op |-> "register", status |-> 400,
                        detail |-> "Email already registered", email |-> email]
            /\ UNCHANGED inflight
       ELSE /\ inflight' = [inflight EXCEPT ![email] = @ + 1]
            /\ UNCHANGED last
    /\ UNCHANGED <<db, goal, logs, now, pc, window, stats, prev, ms>>

(* auth.py lines 71-76 and UserRepository.create: the unique index on      *)
(* users.email rejects the insert of a taken email, and the unhandled      *)
(* IntegrityError becomes a 500                                            *)
RegisterCreate(email) ==
    /\ inflight[email] > 0
    /\ inflight' = [inflight EXCEPT ![email] = @ - 1]
    /\ IF \E u \in db.users : u.email = email
       THEN /\ last' = [op |-> "register", status |-> 500,
                        detail |-> "IntegrityError", email |-> email]
            /\ UNCHANGED db
       ELSE /\ db' = [db EXCEPT !.users = @ \cup
                          {[id |-> Cardinality(db.users) + 1, email |-> email]}]
            /\ last' = [op |-> "register", status |-> 201, detail |-> "",
                        email |-> email]
    /\ UNCHANGED <<goal, logs, now, pc, window, stats, prev, ms>>

(* goals.py lines 51-65 *)
CreateGoal(token, body) ==
    LET current_user == get_current_user(db, token)
        exchange == [user |-> CallerId(current_user), body |-> body]
    IN  /\ IF IsNone(current_user)
           THEN /\ last' = Unauthorized("create_goal") @@ exchange @@ [goal_id |-> None]
                /\ UNCHANGED db
           ELSE /\ db.goal_seq < MaxGoals
                /\ LET id == db.goal_seq + 1
                       goal_dict == create_goal_dict(body, Val(current_user))
                   IN  /\ db' = [db EXCEPT !.goals = @ \cup {GoalRow(id, goal_dict)},
                                           !.goal_seq = id]
                       /\ last' = [op |-> "create_goal", status |-> 201, detail |-> ""]
                                      @@ exchange @@ [goal_id |-> Some(id)]
        /\ UNCHANGED <<inflight, goal, logs, now, pc, window, stats, prev, ms>>

(* goals.py lines 616-652 *)
CreateLog(token, goal_id) ==
    LET current_user == get_current_user(db, token)
        g == goal_get_by_id(db, goal_id)
        exchange == [user |-> CallerId(current_user), goal_id |-> goal_id]
    IN  /\ IF IsNone(current_user)
           THEN /\ last' = Unauthorized("create_log") @@ exchange
                /\ UNCHANGED db
           ELSE IF IsNone(g)
           THEN /\ last' = [op |-> "create_log", status |-> 404,
                            detail |-> "Goal not found"] @@ exchange
                /\ UNCHANGED db
           ELSE IF Val(g).privacy = "private" /\ Val(g).owner_id # Val(current_user).id
           THEN /\ last' = [op |-> "create_log", status |-> 403,
                            detail |-> "Access denied"] @@ exchange
                /\ UNCHANGED db
           ELSE /\ db.log_seq < MaxLogRows
                /\ db' = [db EXCEPT !.logs = @ \cup
                              {LogRow(db.log_seq + 1, goal_id, Val(current_user).id)},
                                    !.log_seq = @ + 1]
                /\ last' = [op |-> "create_log", status |-> 201, detail |-> ""]
                               @@ exchange
        /\ UNCHANGED <<inflight, goal, logs, now, pc, window, stats, prev, ms>>

(* goals.py lines 426-459; fails: a statement of GoalRepository.delete      *)
(* raises, the transaction is rolled back and the handler answers 500      *)
DeleteGoal(token, goal_id, fails) ==
    LET current_user == get_current_user(db, token)
        g == goal_get_by_id(db, goal_id)
        exchange == [user |-> CallerId(current_user), goal_id |-> goal_id]
    IN  /\ IF IsNone(current_user)
           THEN /\ last' = Unauthorized("delete_goal") @@ exchange
                /\ UNCHANGED db
           ELSE IF IsNone(g)
           THEN /\ last' = [op |-> "delete_goal", status |-> 404,
                            detail |-> "Goal not found"] @@ exchange
                /\ UNCHANGED db
           ELSE IF Val(g).owner_id # Val(current_user).id
           THEN /\ last' = [op |-> "delete_goal", status |-> 403,
                            detail |-> "Access denied"] @@ exchange
                /\ UNCHANGED db
           ELSE IF fails
           THEN /\ last' = [op |-> "delete_goal", status |-> 500,
                            detail |-> "Failed to delete goal"] @@ exchange
                /\ UNCHANGED db
           ELSE /\ db' = goal_delete(db, Val(g))
                /\ last' = [op |-> "delete_goal", status |-> 204, detail |-> ""]
                               @@ exchange
        /\ UNCHANGED <<inflight, goal, logs, now, pc, window, stats, prev, ms>>

(* goals.py lines 745-770: DELETE /goals/logs/{log_id} *)
DeleteLog(token, log_id) ==
    LET current_user == get_current_user(db, token)
        l == log_get_by_id(db, log_id)
        exchange == [user |-> CallerId(current_user), log_id |-> log_id]
    IN  /\ IF IsNone(current_user)
           THEN /\ last' = Unauthorized("delete_log") @@ exchange
                /\ UNCHANGED db
           ELSE IF IsNone(l)
           THEN /\ last' = [op |-> "delete_log", status |-> 404,
                            detail |-> "Log not found"] @@ exchange
                /\ UNCHANGED db
           ELSE IF Val(l).user_id # Val(current_user).id
           THEN /\ last' = [op |-> "delete_log", status |-> 403,
                            detail |-> "Access denied"] @@ exchange
                /\ UNCHANGED db
           ELSE /\ db' = log_delete(db, Val(l))
                /\ last' = [op |-> "delete_log", status |-> 204, detail |-> ""]
                               @@ exchange
        /\ UNCHANGED <<inflight, goal, logs, now, pc, window, stats, prev, ms>>

(* logs.py lines 286-318: DELETE /logs/{log_id}, open to the log's creator *)
(* and to the goal's owner                                                 *)
LogsDeleteLog(token, log_id) ==
    LET current_user == get_current_user(db, token)
        l == log_get_by_id(db, log_id)
        g == IF IsNone(l) THEN None ELSE goal_get_by_id(db, Val(l).goal_id)
        exchange == [user |-> CallerId(current_user), log_id |-> log_id]
    IN  /\ IF IsNone(current_user)
           THEN /\ last' = Unauthorized("logs.delete_log") @@ exchange
                /\ UNCHANGED db
           ELSE IF IsNone(l)
           THEN /\ last' = [op |-> "logs.delete_log", status |-> 404,
                            detail |-> "Log not found"] @@ exchange
                /\ UNCHANGED db
           ELSE IF IsNone(g)
           THEN /\ last' = [op |-> "logs.delete_log", status |-> 404,
                            detail |-> "Goal not found"] @@ exchange
                /\ UNCHANGED db
           ELSE IF /\ Val(l).user_id # Val(current_user).id
                   /\ Val(g).owner_id # Val(current_user).id
           THEN /\ last' = [op |-> "logs.delete_log", status |-> 403,
                            detail |-> "Access denied"] @@ exchange
                /\ UNCHANGED db
           ELSE /\ db' = log_delete(db, Val(l))
                /\ last' = [op |-> "logs.delete_log", status |-> 204, detail |-> ""]
                               @@ exchange
        /\ UNCHANGED <<inflight, goal, logs, now, pc, window, stats, prev, ms>>

(* the GoalUpdate bodies: privacy unset or set (exclude_unset drops the    *)
(* unset fields)                                                           *)
GoalUpdates == {[privacy |-> p] : p \in Opt({"public", "private"})}

(* goals.py lines 395-423 *)
UpdateGoal(token, goal_id, goal_data) ==
    LET current_user == get_current_user(db, token)
        g == goal_get_by_id(db, goal_id)
        exchange == [user |-> CallerId(current_user), goal_id |-> goal_id]
    IN  /\ IF IsNone(current_user)
           THEN /\ last' = Unauthorized("update_goal") @@ exchange
                /\ UNCHANGED db
           ELSE IF IsNone(g)
           THEN /\ last' = [op |-> "update_goal", status |-> 404,
                            detail |-> "Goal not found"] @@ exchange
                /\ UNCHANGED db
           ELSE IF not_owner(Val(g), Val(current_user))
           THEN /\ last' = [op |-> "update_goal", status |-> 403,
                            detail |-> "Access denied"] @@ exchange
                /\ UNCHANGED db
           ELSE /\ db' = goal_update(db, Val(g), goal_data)
                /\ last' = [op |-> "update_goal", status |-> 200, detail |-> ""]
                               @@ exchange
        /\ UNCHANGED <<inflight, goal, logs, now, pc, window, stats, prev, ms>>

(* goals.py lines 367-392 *)
GenerateShareToken(token, goal_id, share_token) ==
    LET current_user == get_current_user(db, token)
        g == goal_get_by_id(db, goal_id)
        exchange == [user |-> CallerId(current_user), goal_id |-> goal_id]
    IN  /\ IF IsNone(current_user)
           THEN /\ last' = Unauthorized("generate_share_token") @@ exchange
                /\ UNCHANGED db
           ELSE IF IsNone(g)
           THEN /\ last' = [op |-> "generate_share_token", status |-> 404,
                            detail |-> "Goal not found"] @@ exchange
                /\ UNCHANGED db
           ELSE IF not_owner(Val(g), Val(current_user))
           THEN /\ last' = [op |-> "generate_share_token", status |-> 403,
                            detail |-> "Only the goal owner can generate share tokens"]
                               @@ exchange
                /\ UNCHANGED db
           ELSE /\ share_token \in FreshShareTokens(db)
                /\ db' = goal_generate_share_token(db, Val(g), share_token)
                /\ last' = [op |-> "generate_share_token", status |-> 200,
                            detail |-> ""] @@ exchange
        /\ UNCHANGED <<inflight, goal, logs, now, pc, window, stats, prev, ms>>

(* The reading endpoints.  The record of the exchange holds the caller     *)
(* (user), the goal the request resolved to (goal_id, None if it resolved  *)
(* to none) and what the response is built from: goal rows (goals) and     *)
(* log rows (logs).  Date ranges and pagination are not modelled: logs has *)
(* every row they could select.                                            *)
Answer(op, status_code, detail, current_user, goal_id, goals_out, logs_out) ==
    [op |-> op, status |-> status_code, detail |-> detail,
     user |-> CallerId(current_user), goal_id |-> goal_id,
     goals |-> goals_out, logs |-> logs_out]

(* the steps shared by get_goal, get_goal_progress, get_goal_chart,        *)
(* get_goal_heatmap and list_goal_logs: authentication, 404, 403           *)
ReadGoal(op, token, goal_id, goals_out, logs_out) ==
    LET current_user == get_current_user(db, token)
        g == goal_get_by_id(db, goal_id)
    IN  /\ last' =
              IF IsNone(current_user)
              THEN Answer(op, 401, "Could not validate credentials", current_user,
                          Some(goal_id), {}, {})
              ELSE IF IsNone(g)
              THEN Answer(op, 404, "Goal not found", current_user, None, {}, {})
              ELSE IF access_denied(Val(g), Val(current_user))
              THEN Answer(op, 403, "Access denied", current_user, Some(goal_id), {}, {})
              ELSE Answer(op, 200, "", current_user, Some(goal_id),
                          goals_out, logs_out)
        /\ UNCHANGED <<db, inflight, goal, logs, now, pc, window, stats, prev, ms>>

(* goals.py lines 242-265 *)
GetGoal(token, goal_id) ==
    ReadGoal("get_goal", token, goal_id,
             {g \in db.goals : g.id = goal_id}, {})

(* goals.py lines 462-494: statistics of the caller's own logs of the goal *)
GetGoalProgress(token, goal_id) ==
    LET current_user == get_current_user(db, token)
    IN  ReadGoal("get_goal_progress", token, goal_id,
                 {g \in db.goals : g.id = goal_id},
                 IF IsNone(current_user) THEN {}
                 ELSE log_get_by_user_and_goal(db, Val(current_user).id, goal_id))

(* goals.py lines 497-551 *)
GetGoalChart(token, goal_id) ==
    ReadGoal("get_goal_chart", token, goal_id, {}, log_get_by_goal(db, goal_id))

(* goals.py lines 554-612 *)
GetGoalHeatmap(token, goal_id) ==
    ReadGoal("get_goal_heatmap", token, goal_id, {}, log_get_by_goal(db, goal_id))

(* goals.py lines 655-712 *)
ListGoalLogs(token, goal_id) ==
    ReadGoal("list_goal_logs", token, goal_id, {}, log_get_by_goal(db, goal_id))

(* logs.py lines 213-244 *)
GetLog(token, log_id) ==
    LET current_user == get_current_user(db, token)
        l == log_get_by_id(db, log_id)
        g == IF IsNone(l) THEN None ELSE goal_get_by_id(db, Val(l).goal_id)
    IN  /\ last' =
              IF IsNone(current_user)
              THEN Answer("get_log", 401, "Could not validate credentials",
                          current_user, None, {}, {})
              ELSE IF IsNone(l)
              THEN Answer("get_log", 404, "Log not found", current_user, None, {}, {})
              ELSE IF IsNone(g)
              THEN Answer("get_log", 404, "Goal not found", current_user, None, {}, {})
              ELSE IF access_denied(Val(g), Val(current_user))
              THEN Answer("get_log", 403, "Access denied", current_user,
                          Some(Val(g).id), {}, {})
              ELSE Answer("get_log", 200, "", current_user, Some(Val(g).id),
                          {}, {Val(l)})
        /\ UNCHANGED <<db, inflight, goal, logs, now, pc, window, stats, prev, ms>>

(* the steps shared by the three share-token endpoints, which take no      *)
(* credentials: 404, 403                                                   *)
ReadShared(op, share_token, goals_out, logs_out) ==
    LET g == goal_get_by_share_token(db, share_token)
    IN  /\ last' =
              IF IsNone(g)
              THEN Answer(op, 404, "Goal not found", None, None, {}, {})
              ELSE IF share_denied(Val(g))
              THEN Answer(op, 403, "This goal is private and cannot be shared",
                          None, Some(Val(g).id), {}, {})
              ELSE Answer(op, 200, "", None, Some(Val(g).id), goals_out, logs_out)
        /\ UNCHANGED <<db, inflight, goal, logs, now, pc, window, stats, prev, ms>>

(* goals.py lines 268-290 *)
GetGoalByShareToken(share_token) ==
    ReadShared("get_goal_by_share_token", share_token,
               {g \in db.goals : g.share_token = Some(share_token)}, {})

(* goals.py lines 293-331 *)
GetSharedGoalLogs(share_token) ==
    ReadShared("get_shared_goal_logs", share_token, {},
               {l \in db.logs : \E g \in db.goals :
                    g.share_token = Some(share_token) /\ l.goal_id = g.id})

(* goals.py lines 334-364 *)
GetSharedGoalProgress(share_token) ==
    ReadShared("get_shared_goal_progress", share_token,
               {g \in db.goals : g.share_token = Some(share_token)},
               {l \in db.logs : \E g \in db.goals :
                    g.share_token = Some(share_token) /\ l.goal_id = g.id})

(* goals.py lines 218-240: no credentials *)
ListPublicGoals ==
    /\ last' = Answer("list_public_goals", 200, "", None, None,
                      goal_get_public_goals(db), {})
    /\ UNCHANGED <<db, inflight, goal, logs, now, pc, window, stats, prev, ms>>

InitRegister ==
    /\ EngineIdle
    /\ ms = MsIdle
    /\ ApiIdle

NextRegister ==
    \/ \E email \in Emails : RegisterCheck(email)
    \/ \E email \in Emails : RegisterCreate(email)

SpecRegister == InitRegister /\ [][NextRegister]_vars

(* auth.py lines 106-144 *)
RefreshToken(token) ==
    LET payload == verify_token(token, "refresh")
        user == IF IsNone(payload) \/ IsNone(Val(payload).user_id) THEN None
                ELSE user_get_by_id(db, Val(Val(payload).user_id))
    IN  /\ last' =
              IF IsNone(payload) \/ IsNone(Val(payload).user_id)
              THEN [op |-> "refresh_token", status |-> 401,
                    detail |-> "Invalid refresh token", token |-> token,
                    issued |-> None]
              ELSE IF IsNone(user)
              THEN [op |-> "refresh_token", status |-> 401,
                    detail |-> "User not found", token |-> token,
                    issued |-> None]
              ELSE [op |-> "refresh_token", status |-> 200, detail |-> "",
                    token |-> token,
                    issued |-> Some([access_token |->
                                         create_access_token([user_id |-> Val(user).id]),
                                     refresh_token |->
                                         create_refresh_token([user_id |-> Val(user).id])])]
        /\ UNCHANGED <<db, inflight, goal, logs, now, pc, window, stats, prev, ms>>

(* auth.py lines 147-152, behind get_current_user *)
GetCurrentUserInfo(token) ==
    LET current_user == get_current_user(db, token)
    IN  /\ last' =
              IF IsNone(current_user)
              THEN [Unauthorized("get_current_user_info") EXCEPT
                        !.detail = "Could not validate credentials"]
                       @@ [token |-> token, user |-> None]
              ELSE [op |-> "get_current_user_info", status |-> 200, detail |-> "",
                    token |-> token, user |-> Some(Val(current_user).id)]
        /\ UNCHANGED <<db, inflight, goal, logs, now, pc, window, stats, prev, ms>>

NextAuth ==
    \/ \E email \in Emails : RegisterCheck(email)
    \/ \E email \in Emails : RegisterCreate(email)
    \/ \E token \in AuthTokens : RefreshToken(token)
    \/ \E token \in AuthTokens : GetCurrentUserInfo(token)

SpecAuth == InitRegister /\ [][NextAuth]_vars

InitGoals ==
    /\ EngineIdle
    /\ ms = MsIdle
    /\ db = [EmptyDb EXCEPT !.users = RegisteredUsers]
    /\ inflight = [e \in Emails |-> 0]
    /\ last = NoResponse

NextGoals ==
    \/ \E token \in Tokens, body \in Bodies : CreateGoal(token, body)
    \/ \E token \in Tokens, goal_id \in GoalIds : CreateLog(token, goal_id)
    \/ \E token \in Tokens, goal_id \in GoalIds, fails \in BOOLEAN :
          DeleteGoal(token, goal_id, fails)

SpecGoals == InitGoals /\ [][NextGoals]_vars

NextLogs ==
    \/ \E token \in SessionTokens, body \in PlainBodies : CreateGoal(token, body)
    \/ \E token \in SessionTokens, goal_id \in GoalIds : CreateLog(token, goal_id)
    \/ \E token \in SessionTokens, log_id \in LogIds : DeleteLog(token, log_id)
    \/ \E token \in SessionTokens, log_id \in LogIds : LogsDeleteLog(token, log_id)
    \/ \E token \in SessionTokens, goal_id \in GoalIds, fails \in BOOLEAN :
          DeleteGoal(token, goal_id, fails)

SpecLogs == InitGoals /\ [][NextLogs]_vars

-----------------------------------------------------------------------------
(* The tables as requests of the two registered users can have left them:  *)
(* any goals of the ids handed out, each owned by either user, public or   *)
(* private (update_goal switches privacy), with a share token or without,  *)
(* and any logs of the ids handed out, each on a stored goal and by either *)
(* user (a log made while the goal was public stays when it turns          *)
(* private).  The goal of id i carries the token i when it has one.        *)

StoredGoals(ids) ==
    {{[id |-> i, owner_id |-> f[i][1], status |-> "active", privacy |-> f[i][2],
       share_token |-> IF f[i][3] THEN Some(i) ELSE None] : i \in ids} :
        f \in [ids -> {u.id : u \in RegisteredUsers} \X {"public", "private"}
                        \X BOOLEAN]}

StoredLogs(ids, goal_ids) ==
    {{LogRow(i, f[i][1], f[i][2]) : i \in ids} :
        f \in [ids -> goal_ids \X {u.id : u \in RegisteredUsers}]}

InitStored ==
    /\ EngineIdle
    /\ ms = MsIdle
    /\ inflight = [e \in Emails |-> 0]
    /\ last = NoResponse
    /\ \E goal_ids \in SUBSET GoalIds, log_ids \in SUBSET LogIds :
          \E gs \in StoredGoals(goal_ids), ls \in StoredLogs(log_ids, goal_ids) :
              db = [users |-> RegisteredUsers, goals |-> gs, logs |-> ls,
                    goal_seq |-> MaxGoals, log_seq |-> MaxLogRows]

(* One request to a stored state: the owner-only endpoints. *)
NextOwner ==
    \/ \E token \in SessionTokens, goal_id \in GoalIds, goal_data \in GoalUpdates :
          last = NoResponse /\ UpdateGoal(token, goal_id, goal_data)
    \/ \E token \in SessionTokens, goal_id \in GoalIds, share_token \in ShareTokens :
          last = NoResponse /\ GenerateShareToken(token, goal_id, share_token)
    \/ \E token \in SessionTokens, goal_id \in GoalIds, fails \in BOOLEAN :
          last = NoResponse /\ DeleteGoal(token, goal_id, fails)

SpecOwner == InitStored /\ [][NextOwner]_vars

(* One request to a stored state: the reading endpoints, which leave the   *)
(* tables as they are.                                                     *)
NextPrivacy ==
    \/ \E token \in SessionTokens, goal_id \in GoalIds :
          last = NoResponse /\ GetGoal(token, goal_id)
    \/ \E token \in SessionTokens, goal_id \in GoalIds :
          last = NoResponse /\ GetGoalProgress(token, goal_id)
    \/ \E token \in SessionTokens, goal_id \in GoalIds :
          last = NoResponse /\ GetGoalChart(token, goal_id)
    \/ \E token \in SessionTokens, goal_id \in GoalIds :
          last = NoResponse /\ GetGoalHeatmap(token, goal_id)
    \/ \E token \in SessionTokens, goal_id \in GoalIds :
          last = NoResponse /\ ListGoalLogs(token, goal_id)
    \/ \E token \in SessionTokens, log_id \in LogIds :
          last = NoResponse /\ GetLog(token, log_id)
    \/ \E share_token \in ShareTokens :
          last = NoResponse /\ GetGoalByShareToken(share_token)
    \/ \E share_token \in ShareTokens :
          last = NoResponse /\ GetSharedGoalLogs(share_token)
    \/ \E share_token \in ShareTokens :
          last = NoResponse /\ GetSharedGoalProgress(share_token)
    \/ last = NoResponse /\ ListPublicGoals

SpecPrivacy == InitStored /\ [][NextPrivacy]_vars

-----------------------------------------------------------------------------
(* Heatmap query (LogRepository.get_heatmap_data).  A calendar month has   *)
(* DaysPerMonth days, a year MonthsPerYear months; a month is [year,       *)
(* month] with month in 1..MonthsPerYear, as datetime holds it.  The       *)
(* stored logs of this part are rows [goal_id, date, value] in insertion   *)
(* order.                                                                  *)

DaysPerMonth == 2
MonthsPerYear == 12

Month(y, m) == [year |-> y, month |-> m]

(* datetime(year, month, 1, 0, 0, 0) in ticks *)
FirstOfMonth(mo) ==
    DateTime(((mo.year * MonthsPerYear + (mo.month - 1)) * DaysPerMonth) * TicksPerDay,
             TRUE)

month_start(month) == FirstOfMonth(month)

month_end(month) ==
    IF month.month = MonthsPerYear
    THEN PlusDays(FirstOfMonth(Month(month.year + 1, 1)), -1)
    ELSE PlusDays(FirstOfMonth(Month(month.year, month.month + 1)), -1)

HeatmapRow(goal_id, d, v) == [goal_id |-> goal_id, date |-> d, value |-> v]

get_heatmap_data(rows, goal_id, month) ==
    LET hit(r) == /\ r.goal_id = goal_id
                  /\ r.date.t >= month_start(month).t
                  /\ r.date.t <= month_end(month).t
    IN  SortSeq(SelectSeq(rows, hit), LAMBDA a, b : a.date.t < b.date.t)

HeatmapMonths ==
    {Month(0, MonthsPerYear - 1), Month(0, MonthsPerYear), Month(1, 1)}

HeatmapTimes ==
    FirstOfMonth(Month(0, MonthsPerYear - 1)).t ..
        (FirstOfMonth(Month(1, 2)).t - 1)

InitHeatmap ==
    /\ EngineIdle
    /\ ms = MsIdle
    /\ ApiIdle

StoreLog(goal_id, t) ==
    /\ Len(logs) < MaxLogRows
    /\ logs' = Append(logs, HeatmapRow(goal_id, DateTime(t, TRUE), 1))
    /\ last' = NoResponse
    /\ UNCHANGED <<goal, now, pc, window, stats, prev, ms, db, inflight>>

GetHeatmapData(goal_id, month) ==
    /\ last' = [op |-> "get_heatmap_data", goal_id |-> goal_id, month |-> month,
                rows |-> get_heatmap_data(logs, goal_id, month)]
    /\ UNCHANGED <<goal, logs, now, pc, window, stats, prev, ms, db, inflight>>

NextHeatmap ==
    \/ \E goal_id \in GoalIds, t \in HeatmapTimes : StoreLog(goal_id, t)
    \/ \E goal_id \in GoalIds, month \in HeatmapMonths :
          GetHeatmapData(goal_id, month)

SpecHeatmap == InitHeatmap /\ [][NextHeatmap]_vars

-----------------------------------------------------------------------------
(* Vocabulary of the properties *)

Called == pc # "call"
Finished == pc \in {"done", "raised"}
Returned == pc = "done"

(* the amounts of the logs whose index is in I, added up *)
RECURSIVE TotalOf(_)
TotalOf(I) ==
    IF I = {} THEN 0
    ELSE LET i == CHOOSE k \in I : TRUE
         IN  logs[i].value + TotalOf(I \ {i})

(* the logs dated inside the resolved window, both ends included *)
InWindowLogs ==
    {i \in 1..Len(logs) : window.start.t <= logs[i].date.t
                          /\ logs[i].date.t <= window.end.t}
InWindowTotal == TotalOf(InWindowLogs)

(* the fraction f equals n / d (d > 0) *)
IsRatio(f, n, d) == f.den > 0 /\ f.num * d = n * f.den

(* whole days of a tick difference, rounded down *)
WholeDays(ticks) == ticks \div TicksPerDay
WindowDays == WholeDays(window.end.t - window.start.t)

HasTarget == goal.goal_type # "open" /\ ~IsNone(goal.target)

-----------------------------------------------------------------------------
(* C1: for a non-open goal whose target equals 0, progress_pct is 100 when *)
(* the in-window log values sum to more than 0, and 0 when no log lies in  *)
(* the window.                                                             *)
C1_ZeroTargetProgress ==
    (Returned /\ goal.goal_type # "open" /\ goal.target = Some(0)) =>
        /\ InWindowTotal > 0 => IsRatio(stats.progress_pct, 100, 1)
        /\ InWindowLogs = {} => IsRatio(stats.progress_pct, 0, 1)

(* C2: for a non-open goal with target > 0 and non-negative log values,    *)
(* progress_pct = min(100, achievedValue / target * 100); it lies in       *)
(* [0, 100] (the ProgressStats bounds never reject it), and is 100 when    *)
(* the in-window sum reaches or exceeds the target.                        *)
C2_ProgressClamped ==
    (Finished /\ goal.goal_type # "open" /\ Truthy(goal.target)) =>
        /\ stats.raised # "ProgressStats"
        /\ Returned =>
              LET tg == Val(goal.target)
                  a == InWindowTotal
                  p == stats.progress_pct
              IN  /\ IF a >= tg THEN IsRatio(p, 100, 1) ELSE IsRatio(p, a * 100, tg)
                  /\ 0 <= p.num /\ p.num <= 100 * p.den

C2_Witness ==
    /\ Returned /\ goal.goal_type # "open" /\ Truthy(goal.target)
    /\ InWindowTotal > Val(goal.target)
    /\ IsRatio(stats.progress_pct, 100, 1)

(* C3: for a goal that is open or has no target, progress_pct and          *)
(* required_pace are 0 whatever the logs, the timeframe type and now, and  *)
(* neither computation fails.                                              *)
C3_NoTargetZero ==
    (Finished /\ (goal.goal_type = "open" \/ IsNone(goal.target))) =>
        /\ stats.raised \notin {"progress_pct", "required_pace", "ProgressStats"}
        /\ Returned => /\ IsRatio(stats.progress_pct, 0, 1)
                       /\ IsRatio(stats.required_pace, 0, 1)

C3_Witness ==
    /\ Returned /\ goal.goal_type = "open" /\ Truthy(goal.target)
    /\ InWindowTotal > 0
    /\ WindowDays > 0
    /\ IsRatio(stats.progress_pct, 0, 1) /\ IsRatio(stats.required_pace, 0, 1)

(* C4: for a recurring goal with cycle length rolling_days (7 when         *)
(* absent), the resolved window contains now (start <= now < end), is      *)
(* exactly one cycle long and starts a whole number of cycles from         *)
(* start_at, also when now is before start_at or many cycles after it.     *)
C4_RecurringCycleContainsNow ==
    (Called /\ goal.timeframe_type = "recurring") =>
        LET cycle == (IF IsNone(goal.rolling_days) THEN 7 ELSE Val(goal.rolling_days))
                         * TicksPerDay
        IN  /\ ~window.raised
            /\ window.start.t <= Val(now).t /\ Val(now).t < window.end.t
            /\ window.end.t - window.start.t = cycle
            /\ (window.start.t - goal.start_at.t) % cycle = 0

C4_Witness ==
    /\ Called /\ goal.timeframe_type = "recurring"
    /\ Val(now).t < goal.start_at.t
    /\ window.end.t <= goal.start_at.t

(* C5: for a rolling goal the window ends at now and starts rolling_days   *)
(* days (30 when absent) before now, in start_at's awareness mode; it is a *)
(* function of now and rolling_days alone, not of start_at or end_at.      *)
C5_RollingWindow ==
    (Called /\ goal.timeframe_type = "rolling") =>
        LET days == IF IsNone(goal.rolling_days) THEN 30 ELSE Val(goal.rolling_days)
        IN  /\ ~window.raised
            /\ window.end.t = Val(now).t
            /\ window.start.t = Val(now).t - days * TicksPerDay
            /\ window.start.aware = goal.start_at.aware
            /\ window.end.aware = goal.start_at.aware

C5_Witness ==
    /\ Called /\ goal.timeframe_type = "rolling"
    /\ IsNone(goal.rolling_days)
    /\ ~IsNone(goal.end_at)
    /\ goal.start_at.t # Val(now).t /\ Val(goal.end_at).t # Val(now).t
    /\ window.end.t = Val(now).t

(* C6: for a fixed goal the window starts at start_at and ends at end_at   *)
(* when present, otherwise at now; the end has start's awareness mode.     *)
C6_FixedWindow ==
    (Called /\ goal.timeframe_type = "fixed") =>
        /\ ~window.raised
        /\ window.start = goal.start_at
        /\ window.end.t = (IF ~IsNone(goal.end_at) THEN Val(goal.end_at).t
                           ELSE Val(now).t)
        /\ window.end.aware = window.start.aware

C6_Witness ==
    /\ Called /\ goal.timeframe_type = "fixed"
    /\ ~IsNone(goal.end_at)
    /\ Val(goal.end_at).aware # goal.start_at.aware
    /\ Val(goal.end_at).t # Val(now).t
    /\ window.end.t = Val(goal.end_at).t

(* C7: when start_at and the supplied now differ in timezone awareness,    *)
(* every subtraction or comparison involving now (in active_window and in  *)
(* required_pace) is made on reconciled values, so the call raises no      *)
(* mixed-awareness error for any timeframe type.                           *)
C7_NowReconciledEverywhere ==
    (Finished /\ goal.start_at.aware # Val(now).aware) =>
        stats.raised \notin {"active_window", "required_pace"}

(* C8: achieved_value is the sum of value over exactly the logs with       *)
(* window_start <= date <= window_end, both ends included; zero when no    *)
(* log qualifies (empty list, or window_end before window_start).          *)
C8_SumInWindowInclusive ==
    Returned => stats.achieved_value = InWindowTotal

C8_Witness ==
    /\ Returned
    /\ window.start.t < window.end.t
    /\ \E i, j \in 1..Len(logs) :
          /\ logs[i].date.t = window.start.t /\ logs[i].value > 0
          /\ logs[j].date.t = window.end.t /\ logs[j].value > 0
          /\ stats.achieved_value = logs[i].value + logs[j].value

(* C9: for a non-open goal with a target, required_pace is 0 when the      *)
(* window is not a whole day long, else target / max(1, whole days from    *)
(* now to window_end): the divisor is at least 1 even after the window has *)
(* closed and the numerator is the full target whatever was achieved.      *)
C9_RequiredPace ==
    (Returned /\ HasTarget) =>
        LET remaining == WholeDays(window.end.t - Val(now).t)
        IN  IF WindowDays <= 0 THEN IsRatio(stats.required_pace, 0, 1)
            ELSE IsRatio(stats.required_pace, Val(goal.target),
                         IF remaining >= 1 THEN remaining ELSE 1)

C9_Witness ==
    /\ Returned /\ HasTarget /\ Val(goal.target) > 0
    /\ WindowDays > 0
    /\ Val(now).t > window.end.t
    /\ InWindowTotal > 0
    /\ IsRatio(stats.required_pace, Val(goal.target), 1)

(* C10: actual_pace is achievedValue / totalDays, totalDays being the      *)
(* whole-day length of the window, and 0 whenever totalDays <= 0, also for *)
(* a window shorter than one day that contains logs.                       *)
C10_ActualPace ==
    Returned =>
        IF WindowDays <= 0 THEN IsRatio(stats.actual_pace, 0, 1)
        ELSE IsRatio(stats.actual_pace, InWindowTotal, WindowDays)

C10_Witness ==
    /\ Returned
    /\ window.start.t < window.end.t /\ WindowDays = 0
    /\ DateOf(window.start) # DateOf(window.end)
    /\ InWindowTotal > 0
    /\ IsRatio(stats.actual_pace, 0, 1)

(* C11: for a streak goal, over the calendar dates from window_start's     *)
(* date to window_end's date inclusive, best is the length of the longest  *)
(* run of consecutive active dates and current is the length of the run of *)
(* active dates ending at window_end's date; a date is active iff at least *)
(* one log on it has value > 0, so a date with only zero-value logs counts *)
(* like a date without logs.                                               *)
WindowDates == DateOf(window.start)..DateOf(window.end)
ActiveDate(d) == \E i \in 1..Len(logs) : DateOf(logs[i].date) = d /\ logs[i].value > 0

(* the length of the run of active window dates that ends at date d *)
RunEndingAt(d) ==
    CHOOSE k \in 0..Cardinality(WindowDates) :
        /\ \A j \in 0..(k - 1) : (d - j) \in WindowDates /\ ActiveDate(d - j)
        /\ ~((d - k) \in WindowDates /\ ActiveDate(d - k))

LongestRun ==
    IF WindowDates = {} THEN 0
    ELSE LET runs == {RunEndingAt(d) : d \in WindowDates}
         IN  CHOOSE m \in runs : \A r \in runs : r <= m

C11_StreakRuns ==
    (Returned /\ goal.goal_type = "streak") =>
        /\ stats.streak.best = LongestRun
        /\ stats.streak.current = RunEndingAt(DateOf(window.end))

(* days 1,2,4,5 of a five-day window active, day 3 holding a zero log *)
C11_Witness ==
    /\ Returned /\ goal.goal_type = "streak"
    /\ DateOf(window.start) = 0 /\ DateOf(window.end) = 4
    /\ \A d \in {0, 1, 3, 4} : ActiveDate(d)
    /\ ~ActiveDate(2) /\ \E i \in 1..Len(logs) : DateOf(logs[i].date) = 2
    /\ stats.streak = [current |-> 2, best |-> 2]

(* C12: for every goal whose type is not streak (count, sum, milestone,    *)
(* open) compute_streak returns current 0 and best 0, whatever the logs    *)
(* and the window.                                                         *)
C12_NoStreakForOtherTypes ==
    (Returned /\ goal.goal_type \in {"count", "sum", "milestone", "open"}) =>
        stats.streak = [current |-> 0, best |-> 0]

C12_Witness ==
    /\ Returned /\ goal.goal_type = "milestone"
    /\ \A d \in WindowDates : ActiveDate(d)
    /\ Cardinality(WindowDates) = MaxStreakDays
    /\ stats.streak = [current |-> 0, best |-> 0]

(* C13: milestones_reached returns exactly the labels of the configured    *)
(* milestones whose threshold <= progress_pct, in the configured order     *)
(* (not sorted by threshold, duplicates kept); the empty list when no      *)
(* milestones are configured; a milestone with threshold 0 is included for *)
(* every progress_pct >= 0.                                                *)
Configured ==
    IF IsNone(ms.settings_json) \/ IsNone(Val(ms.settings_json).milestones)
    THEN <<>> ELSE Val(Val(ms.settings_json).milestones)

ThresholdMet(m) ==
    LET th == IF m.threshold = None THEN 0 ELSE Val(m.threshold)
    IN  th * ms.progress_pct.den <= ms.progress_pct.num

LabelOf(m) == IF m.label = None THEN "" ELSE Val(m.label)

C13_MilestonesInOrder ==
    ms.pc = "done" =>
        LET met == SelectSeq(Configured, ThresholdMet)
        IN  /\ ms.reached = [i \in 1..Len(met) |-> LabelOf(met[i])]
            /\ Configured = <<>> => ms.reached = <<>>
            /\ \A i \in 1..Len(Configured) :
                  (Configured[i].threshold = Some(0) /\ ms.progress_pct.num >= 0) =>
                      \E j \in 1..Len(ms.reached) : ms.reached[j] = LabelOf(Configured[i])

(* thresholds configured out of order: the labels keep the configured order *)
C13_Witness ==
    /\ ms.pc = "done"
    /\ ms.progress_pct = FloatHundred
    /\ Len(Configured) = 2
    /\ Configured[1].threshold = Some(100) /\ Configured[2].threshold = Some(0)
    /\ ms.reached = <<"done", "half">>

(* C14: in every ProgressStats returned, achieved is true iff progress_pct *)
(* >= 100; for a non-open goal with target > 0 that is iff the in-window   *)
(* achieved value >= target.                                               *)
C14_AchievedIffFull ==
    Returned =>
        /\ stats.achieved <=> (stats.progress_pct.num >= 100 * stats.progress_pct.den)
        /\ (goal.goal_type # "open" /\ Truthy(goal.target)) =>
              (stats.achieved <=> (InWindowTotal >= Val(goal.target)))

(* the in-window sum meets the target exactly *)
C14_Witness ==
    /\ Returned /\ goal.goal_type # "open" /\ Truthy(goal.target)
    /\ InWindowTotal = Val(goal.target)
    /\ stats.achieved

(* C15: one call resolves the window once and uses that pair for every     *)
(* statistic, so the outputs agree with each other: achieved_value is the  *)
(* sum over the resolved window; for a non-open goal with target > 0,      *)
(* progress_pct = min(100, achieved_value / target * 100); when the window *)
(* is at least a whole day long, actual_pace = achieved_value / that       *)
(* length; the streak runs over the dates of the same window.              *)
C15_OneWindowForAll ==
    Returned =>
        LET a == stats.achieved_value
        IN  /\ a = InWindowTotal
            /\ (goal.goal_type # "open" /\ Truthy(goal.target)) =>
                  IF a >= Val(goal.target) THEN IsRatio(stats.progress_pct, 100, 1)
                  ELSE IsRatio(stats.progress_pct, a * 100, Val(goal.target))
            /\ WindowDays > 0 => IsRatio(stats.actual_pace, a, WindowDays)
            /\ goal.goal_type = "streak" =>
                  stats.streak.current = RunEndingAt(DateOf(window.end))

(* a rolling window, which moves with now, holding a log on its first tick *)
C15_Witness ==
    /\ Returned /\ goal.timeframe_type = "rolling"
    /\ goal.goal_type # "open" /\ Truthy(goal.target)
    /\ WindowDays > 0
    /\ \E i \in 1..Len(logs) : logs[i].date.t = window.start.t /\ logs[i].value > 0
    /\ stats.achieved_value > 0
    /\ IsRatio(stats.actual_pace, stats.achieved_value, WindowDays)

(* C19: for a goal whose timeframe type is none of fixed, rolling and      *)
(* recurring, active_window raises no error and returns start_at as the    *)
(* start and now, brought to start_at's awareness mode, as the end.        *)
C19_UnknownTimeframeFallback ==
    (Called /\ goal.timeframe_type \notin {"fixed", "rolling", "recurring"}) =>
        /\ ~window.raised
        /\ window.start = goal.start_at
        /\ window.end = [t |-> Val(now).t, aware |-> goal.start_at.aware]

C19_Witness ==
    /\ Called /\ goal.timeframe_type = "custom"
    /\ Val(now).aware # goal.start_at.aware
    /\ ~IsNone(goal.end_at) /\ Val(goal.end_at).t # Val(now).t
    /\ ~window.raised /\ window.end.t = Val(now).t

(* C20: in calculate_progress_stats every log date is brought to the       *)
(* awareness mode of the value it is compared with (a window bound or      *)
(* another log date) before the comparison, for every combination of aware *)
(* and naive log dates, start_at and now: no comparison of a log date      *)
(* raises the mixed-awareness TypeError.                                   *)
C20_LogDatesReconciled ==
    Finished =>
        stats.raised \notin {"sum_in_window", "progress_pct", "actual_pace",
                             "compute_streak"}

(* C16: after the owner's DELETE of a goal has succeeded with status 204,  *)
(* the goal is soft deleted: GoalRepository.get_by_id still returns it and *)
(* its status is "ended".                                                  *)
C16_DeleteIsSoft ==
    (last.op = "delete_goal" /\ last.status = 204) =>
        LET found == goal_get_by_id(db, last.goal_id)
        IN  ~IsNone(found) /\ Val(found).status = "ended"

(* C17: every goal created through the create-goal endpoint is stored with *)
(* status "active" and owner_id equal to the authenticated caller's id,    *)
(* whatever the body contains; a request without valid credentials is      *)
(* answered 401 and creates no goal.                                       *)
ValidCredentials(token) ==
    /\ token.valid /\ token.type = "access" /\ token.user_id # None
    /\ \E u \in db.users : u.id = Val(token.user_id)

C18_UniqueEmails ==
    /\ [](\A u1, u2 \in db.users : u1.email = u2.email => u1 = u2)
    /\ [][\A email \in Emails :
            (RegisterCheck(email) /\ \E u \in db.users : u.email = email) =>
                /\ last'.op = "register" /\ last'.email = email
                /\ last'.status = 400
                /\ last'.detail = "Email already registered"
                /\ db'.users = db.users]_vars

C18_Witness ==
    /\ last.op = "register" /\ last.status = 400
    /\ \E u \in db.users : u.email = last.email
    /\ Cardinality(db.users) = Cardinality(Emails)

(* C22: calculate_progress_stats never fails on the edge cases the spec    *)
(* names (target absent, 0 or positive; a window of whole-day length 0 or  *)
(* negative; an unrecognized timeframe type; rolling_days absent; an empty *)
(* log list): whenever the log dates have start_at's awareness mode, the   *)
(* call returns a ProgressStats record.                                    *)
C22_NeverFails ==
    (Finished /\ \A i \in 1..Len(logs) : logs[i].date.aware = goal.start_at.aware) =>
        Returned

(* C23: for a streak goal whose window start date is not after its end     *)
(* date, current > 0 iff window_end's calendar date has a log with value   *)
(* > 0, and 0 <= current <= best <= number of calendar dates of the        *)
(* window; a window ending after the last log date yields current = 0.     *)
C23_CurrentEndsAtWindowEnd ==
    (Returned /\ goal.goal_type = "streak"
              /\ DateOf(window.start) <= DateOf(window.end)) =>
        /\ (stats.streak.current > 0) <=> ActiveDate(DateOf(window.end))
        /\ 0 <= stats.streak.current
        /\ stats.streak.current <= stats.streak.best
        /\ stats.streak.best <= Cardinality(WindowDates)

(* two active dates, then a window end date later than every log *)
C23_Witness ==
    /\ Returned /\ goal.goal_type = "streak"
    /\ Len(logs) > 0
    /\ \A i \in 1..Len(logs) : DateOf(logs[i].date) < DateOf(window.end)
    /\ stats.streak.best = 2 /\ stats.streak.current = 0

(* C25: for a streak goal a calendar date is active by the date component  *)
(* of the logs alone: a log with value > 0 on window_start's date but      *)
(* before window_start, or on window_end's date but after window_end,      *)
(* makes that date count toward the streak although the log is excluded    *)
(* from achieved_value.                                                    *)
C25_StreakByDateOnly ==
    (Returned /\ goal.goal_type = "streak"
              /\ DateOf(window.start) <= DateOf(window.end)) =>
        /\ stats.achieved_value = InWindowTotal
        /\ \A i \in 1..Len(logs) :
              logs[i].value > 0 =>
                  /\ DateOf(logs[i].date) = DateOf(window.start) =>
                        stats.streak.best >= 1
                  /\ DateOf(logs[i].date) = DateOf(window.end) =>
                        stats.streak.current >= 1

(* the only positive log lies on the start date, before the window opens *)
C25_Witness ==
    /\ Returned /\ goal.goal_type = "streak"
    /\ DateOf(window.start) < DateOf(window.end)
    /\ \E i \in 1..Len(logs) :
          /\ logs[i].value > 0
          /\ DateOf(logs[i].date) = DateOf(window.start)
          /\ logs[i].date.t < window.start.t
          /\ \A j \in 1..Len(logs) : logs[j].value > 0 => logs[j].date = logs[i].date
    /\ stats.achieved_value = 0
    /\ stats.streak.best = 1

(* C26: for every rolling goal that is not open and has target > 0, the    *)
(* required_pace returned equals the full target, for every rolling_days   *)
(* >= 1 (30 when absent), every now and every list of logs.                *)
C26_RollingPaceIsTarget ==
    (Returned /\ goal.timeframe_type = "rolling"
              /\ goal.goal_type # "open" /\ Truthy(goal.target)) =>
        IsRatio(stats.required_pace, Val(goal.target), 1)

(* the target already reached inside the window *)
C26_Witness ==
    /\ Returned /\ goal.timeframe_type = "rolling"
    /\ goal.goal_type # "open" /\ Truthy(goal.target)
    /\ InWindowTotal >= Val(goal.target)
    /\ IsRatio(stats.required_pace, Val(goal.target), 1)

(* C24: for a recurring goal each log is summed in the achieved_value of   *)
(* at most one cycle: for two values of now that fall in different cycles, *)
(* no log counts in both resolved windows, so the two achieved values      *)
(* together never exceed the total of the logs.                            *)
C24_CyclesDoNotOverlap ==
    (Returned /\ prev # NoPrev /\ goal.timeframe_type = "recurring"
              /\ prev.window # window) =>
        prev.stats.achieved_value + stats.achieved_value
            <= TotalOf(1..Len(logs))

(* the calendar month a datetime lies in *)
MonthOf(d) ==
    LET n == d.t \div (DaysPerMonth * TicksPerDay)
    IN  Month(n \div MonthsPerYear, (n % MonthsPerYear) + 1)

(* C30: the heatmap rows of a month are exactly the logs of the goal dated *)
(* within that calendar month, from the first instant of day 1 through the *)
(* last instant of the last day.                                           *)
C30_HeatmapCoversMonth ==
    last.op = "get_heatmap_data" =>
        \A i \in 1..Len(logs) :
            (logs[i].goal_id = last.goal_id /\ MonthOf(logs[i].date) = last.month)
                <=> (\E j \in 1..Len(last.rows) : last.rows[j] = logs[i])

(* a token the refresh endpoint must honour in the current database *)
ValidRefresh(token) ==
    /\ token.valid /\ token.type = "refresh" /\ token.user_id # None
    /\ \E u \in db.users : u.id = Val(token.user_id)

(* C21: refresh_token issues a new access/refresh pair for the token's     *)
(* user only when the token is validly signed, unexpired, of type          *)
(* "refresh" and its user exists, and otherwise answers 401 and issues     *)
(* nothing; a refresh token presented as bearer credential to an           *)
(* authenticated endpoint is answered 401.                                 *)
C21_TokenTypesKept ==
    [][\A token \in AuthTokens :
          /\ RefreshToken(token) =>
                IF ValidRefresh(token)
                THEN /\ last'.status = 200
                     /\ last'.issued =
                           Some([access_token |->
                                     Token(TRUE, "access", token.user_id),
                                 refresh_token |->
                                     Token(TRUE, "refresh", token.user_id)])
                ELSE /\ last'.status = 401
                     /\ last'.issued = None
          /\ (GetCurrentUserInfo(token) /\ token.type = "refresh") =>
                (last'.status = 401 /\ last'.user = None)]_vars

(* an access token of a registered user, signed and unexpired, was         *)
(* presented to the refresh endpoint and rejected                          *)
C21_Witness ==
    /\ last.op = "refresh_token"
    /\ last.status = 401
    /\ last.issued = None
    /\ last.token.valid /\ last.token.type = "access"
    /\ last.token.user_id # None
    /\ \E u \in db.users : u.id = Val(last.token.user_id)

C27_OwnerOnlyChanges ==
    [][(/\ last'.op \in {"update_goal", "delete_goal", "generate_share_token"}
        /\ last'.user # None) =>
          LET g == goal_get_by_id(db, last'.goal_id)
          IN  /\ IsNone(g) => (last'.status = 404 /\ db' = db)
              /\ (~IsNone(g) /\ Val(g).owner_id # Val(last'.user)) =>
                    (last'.status = 403 /\ db' = db)]_vars

(* a user asked for a share token of another user's goal that has logs *)
C27_Witness ==
    /\ last.op = "generate_share_token"
    /\ last.status = 403
    /\ \E g \in db.goals :
          /\ g.id = last.goal_id
          /\ last.user # None /\ g.owner_id # Val(last.user)
          /\ \E l \in db.logs : l.goal_id = g.id

====
